---- MODULE Spec2Model ----
(***************************************************************************)
(* Repository metadata ingestion and scoring (src/app/utils/github.ts):    *)
(* getRepoOwnerAndName, calculateHealthScore, hasReachedMilestone and      *)
(* fetchRepository.                                                        *)
(*                                                                         *)
(* Representation.                                                         *)
(*  - A nullable value is a sequence of length at most one: <<>> is null   *)
(*    and <<x>> is the value x.                                            *)
(*  - A URL is a sequence of tokens.  Each token stands for the characters *)
(*    it spells ("github.com" is the ten characters of the host marker,    *)
(*    "/" the path separator); the string is the concatenation.  No token  *)
(*    but "/" contains a separator and the host marker occurs in a         *)
(*    concatenation only as the token "github.com".                        *)
(*  - Times are counted in ticks of TickMs milliseconds since the epoch    *)
(*    (a quarter of a day), so that every quotient by DAY_IN_MS is a       *)
(*    multiple of 1/4 and the double-precision arithmetic of the code is   *)
(*    exact on the values of the model.                                    *)
(***************************************************************************)
EXTENDS Integers, Sequences, FiniteSets, TLC

VARIABLES
    url,        \* getRepoOwnerAndName: the argument of the call
    parsed,     \* getRepoOwnerAndName: [done, value] of the call
    now,        \* the clock read by Date.now(), in ticks
    props,      \* calculateHealthScore: the argument (GetToolScoreProps)
    scores,     \* calculateHealthScore: the calls made so far, in order
    tool,       \* fetchRepository: the argument (repository, stars, bump)
    pc,         \* fetchRepository: "idle", "awaiting" (query in flight), "done"
    response,   \* fetchRepository: the outcome of the remote query
    queries,    \* number of queries issued to githubGraphqlClient
    logs,       \* number of console.error lines written
    result      \* fetchRepository: how the call ended

vars == <<url, parsed, now, props, scores, tool, pc, response, queries, logs, result>>

Null == <<>>
Some(x) == <<x>>

-----------------------------------------------------------------------------
(* getRepoOwnerAndName                                                     *)

HOST == "github.com"
SEP == "/"
\* a host that the marker matches only if its dot is left unescaped
DECOY == "githubxcom"

MaxUrlLen == 7

Tokens == {HOST, DECOY, SEP, "a"}

\* [^/]+ from position i: the length of the longest run of non-separators
RECURSIVE NonSepRun(_, _)
NonSepRun(s, i) ==
    IF i > Len(s) \/ s[i] = SEP THEN 0 ELSE 1 + NonSepRun(s, i + 1)

\* github\.com\/ at position i
HostAt(s, i) ==
    /\ i + 1 <= Len(s)
    /\ s[i] = HOST
    /\ s[i + 1] = SEP

\* The regular expression tried at start position i.  Both groups are greedy
\* and are followed by a separator (or, the name, by the end), so the only
\* length at which a group can match is that of the whole run: a shorter one
\* is followed by a non-separator.
GroupsAt(s, i) ==
    LET o  == i + 2
        lo == NonSepRun(s, o)
        n  == o + lo + 1
        ln == NonSepRun(s, n)
    IN  IF /\ HostAt(s, i)
           /\ lo >= 1
           /\ o + lo <= Len(s)
           /\ s[o + lo] = SEP
           /\ ln >= 1
           /\ (n + ln > Len(s) \/ s[n + ln] = SEP)
        THEN Some([owner |-> SubSeq(s, o, o + lo - 1),
                   name  |-> SubSeq(s, n, n + ln - 1)])
        ELSE Null

\* String.prototype.match without the g flag: the leftmost start that matches
RECURSIVE MatchFrom(_, _)
MatchFrom(s, i) ==
    IF i > Len(s) THEN Null
    ELSE IF GroupsAt(s, i) # Null THEN GroupsAt(s, i)
    ELSE MatchFrom(s, i + 1)

\* a plausible slip: the name group written .+ takes the rest of the string
GroupsAtRestName(s, i) ==
    LET o  == i + 2
        lo == NonSepRun(s, o)
        n  == o + lo + 1
    IN  IF /\ HostAt(s, i)
           /\ lo >= 1
           /\ o + lo <= Len(s)
           /\ s[o + lo] = SEP
           /\ n <= Len(s)
        THEN Some([owner |-> SubSeq(s, o, o + lo - 1),
                   name  |-> SubSeq(s, n, Len(s))])
        ELSE Null

RECURSIVE MatchFromRestName(_, _)
MatchFromRestName(s, i) ==
    IF i > Len(s) THEN Null
    ELSE IF GroupsAtRestName(s, i) # Null THEN GroupsAtRestName(s, i)
    ELSE MatchFromRestName(s, i + 1)

getRepoOwnerAndNameRestName(u) ==
    IF u = Null THEN Null ELSE MatchFromRestName(u[1], 1)

\* url?.match(regex); match?.groups ? {owner, name} : null
getRepoOwnerAndName(u) ==
    IF u = Null THEN Null ELSE MatchFrom(u[1], 1)

Urls == {Null} \cup { Some(s) : s \in UNION { [1..n -> Tokens] : n \in 0..MaxUrlLen } }

NotParsed == [done |-> FALSE, value |-> Null]

ToolOfNoCall == [repository |-> Null, stars |-> 0, bump |-> Null]

NoProps == [stars |-> 0, forks |-> 0, contributors |-> 0, watchers |-> 0,
            lastCommitDate |-> [kind |-> "null", time |-> 0], bump |-> Null]

\* no call of fetchRepository is under way
NoFetch ==
    /\ tool = ToolOfNoCall
    /\ pc = "idle"
    /\ response = [kind |-> "none", data |-> Null]
    /\ queries = 0
    /\ logs = 0
    /\ result = [kind |-> "none", value |-> Null]

InitParser ==
    /\ url \in Urls
    /\ parsed = NotParsed
    /\ now = 0
    /\ props = NoProps
    /\ scores = <<>>
    /\ NoFetch

ParseUrl ==
    /\ ~parsed.done
    /\ parsed' = [done |-> TRUE, value |-> getRepoOwnerAndName(url)]
    /\ UNCHANGED <<url, now, props, scores, tool, pc, response, queries, logs, result>>

-----------------------------------------------------------------------------
(* calculateHealthScore                                                    *)

DAY_IN_MS == 86400000
TickMs == DAY_IN_MS \div 4
TicksPerDay == DAY_IN_MS \div TickMs

\* Math.min(daysSinceLastCommit, 90)
MAX_PENALTY_DAYS == 90

\* the clock at the start of a behaviour, and how far it advances
ClockStart == 80000
MaxTicks == 4
MaxStars == 2

Min(a, b) == IF a <= b THEN a ELSE b

\* A Date is [kind, time]: a time value in ticks, or an Invalid Date (NaN).
NoDate == [kind |-> "null", time |-> 0]
InvalidDate == [kind |-> "invalid", time |-> 0]
DateAt(t) == [kind |-> "date", time |-> t]

\* lastCommitDate?.getTime() || 0: undefined, NaN and 0 all give 0
CommitTimeOrZero(d) == IF d.kind = "date" THEN d.time ELSE 0

\* Date.now() - (lastCommitDate?.getTime() || 0), in ticks
timeSinceLastCommit(clock, d) == clock - CommitTimeOrZero(d)

\* a plausible slip: the cap of 90 days left out
PenaltyTicksUncapped(clock, d) == timeSinceLastCommit(clock, d)

\* Math.min(daysSinceLastCommit, 90), in ticks: the penalty is this number
\* times 0.5 / TicksPerDay
PenaltyTicks(clock, d) ==
    Min(timeSinceLastCommit(clock, d), MAX_PENALTY_DAYS * TicksPerDay)

\* bump || 0
BumpOrZero(b) == IF b = Null THEN 0 ELSE b[1]

\* stars * 0.25 + forks * 0.5 + contributors * 0.5 + watchers * 0.25, in quarters
SignalQuarters(p) == p.stars + 2 * p.forks + 2 * p.contributors + p.watchers

\* Math.round(x) = floor(x + 0.5) of x = num / den, den > 0
RoundHalfUp(num, den) == (2 * num + den) \div (2 * den)

\* a plausible slip: the penalty added
calculateHealthScorePenaltyAdded(p, clock) ==
    RoundHalfUp(TicksPerDay * SignalQuarters(p)
                  + 2 * PenaltyTicks(clock, p.lastCommitDate)
                  + 4 * TicksPerDay * BumpOrZero(p.bump),
                4 * TicksPerDay)

\* Math.round(starsScore + forksScore + contributorsScore + watchersScore
\*            - lastCommitPenalty + (bump || 0))
\* over the common denominator 4 * TicksPerDay
calculateHealthScore(p, clock) ==
    RoundHalfUp(TicksPerDay * SignalQuarters(p)
                  - 2 * PenaltyTicks(clock, p.lastCommitDate)
                  + 4 * TicksPerDay * BumpOrZero(p.bump),
                4 * TicksPerDay)

\* last commits relative to the start of the clock, in ticks: 900, 90, just
\* under 90, 89 and 10 days before it, a tick before it, at it, and half a
\* day and a day after it
CommitOffsets == {-900 * TicksPerDay, -MAX_PENALTY_DAYS * TicksPerDay,
                  1 - MAX_PENALTY_DAYS * TicksPerDay, -89 * TicksPerDay,
                  -10 * TicksPerDay, -1, 0, 2, TicksPerDay}

CommitDates == {NoDate, InvalidDate} \cup { DateAt(ClockStart + o) : o \in CommitOffsets }

Bumps == {Null, Some(-2), Some(0), Some(3)}

PropsSet ==
    [stars : 0..MaxStars, forks : {0, 1}, contributors : {0, 1}, watchers : {0, 1},
     lastCommitDate : CommitDates, bump : Bumps]
    \cup {[stars |-> 1000, forks |-> 200, contributors |-> 50, watchers |-> 300,
           lastCommitDate |-> DateAt(ClockStart - 10 * TicksPerDay), bump |-> Null]}

InitScore ==
    /\ props \in PropsSet
    /\ now = ClockStart
    /\ scores = <<>>
    /\ url = Null
    /\ parsed = NotParsed
    /\ NoFetch

\* time passes
Tick ==
    /\ now < ClockStart + MaxTicks
    /\ now' = now + 1
    /\ UNCHANGED <<url, parsed, props, scores, tool, pc, response, queries, logs, result>>

\* one call of calculateHealthScore(props), recorded with the clock it read
\* and the penalty it subtracted (in ticks)
CallCalculateHealthScore ==
    /\ Len(scores) < 2
    /\ scores' = Append(scores,
                    [at      |-> now,
                     penalty |-> PenaltyTicks(now, props.lastCommitDate),
                     score   |-> calculateHealthScore(props, now)])
    /\ UNCHANGED <<url, parsed, now, props, tool, pc, response, queries, logs, result>>

-----------------------------------------------------------------------------
(* hasReachedMilestone                                                     *)

\* the milestone ladder imported from ./constants
STAR_MILESTONES == <<100, 500, 1000>>

\* a plausible slip: a level test, the previous count ignored
RECURSIVE SomeAtLevel(_, _, _)
SomeAtLevel(i, currentStars, previousStars) ==
    IF i > Len(STAR_MILESTONES) THEN FALSE
    ELSE IF currentStars >= STAR_MILESTONES[i] THEN TRUE
    ELSE SomeAtLevel(i + 1, currentStars, previousStars)

hasReachedMilestoneLevel(currentStars, previousStars) ==
    SomeAtLevel(1, currentStars, previousStars)

\* Array.prototype.some from index i: the first milestone that passes decides
RECURSIVE SomeCrossed(_, _, _)
SomeCrossed(i, currentStars, previousStars) ==
    IF i > Len(STAR_MILESTONES) THEN FALSE
    ELSE IF previousStars < STAR_MILESTONES[i] /\ currentStars >= STAR_MILESTONES[i] THEN TRUE
    ELSE SomeCrossed(i + 1, currentStars, previousStars)

hasReachedMilestone(currentStars, previousStars) ==
    SomeCrossed(1, currentStars, previousStars)

-----------------------------------------------------------------------------
(* fetchRepository                                                         *)

\* languages(first: 3, ...)
MaxLangs == 3

NOASSERTION == "NOASSERTION"

\* slugify of the names the model uses
slugify(name) ==
    CASE name = "TypeScript"  -> "typescript"
      [] name = "CSS"         -> "css"
      [] name = "Shell"       -> "shell"
      [] name = "Self Hosted" -> "self-hosted"
      [] name = "CLI"         -> "cli"

\* The halves n + 0.5 that (size / totalSize) * 100 misses in double
\* precision: the product is the double just below n + 0.5 and Math.round
\* gives n.  Every other quotient of the model rounds as the exact one.
HalfwayRoundedDown == {14, 28, 56, 57}

NaN == [kind |-> "NaN", value |-> 0]
Infinity == [kind |-> "Infinity", value |-> 0]
Number(n) == [kind |-> "number", value |-> n]

\* Math.round((size / repositoryLanguages.totalSize) * 100)
PercentageOfTotal(size, totalSize) ==
    IF totalSize = 0
    THEN IF size = 0 THEN NaN ELSE Infinity
    ELSE LET n == (100 * size) \div totalSize
         IN  IF 200 * size = (2 * n + 1) * totalSize /\ n \in HalfwayRoundedDown
             THEN Number(n)
             ELSE Number(RoundHalfUp(100 * size, totalSize))

\* percentage > 17.5
AboveThreshold(p) ==
    \/ p.kind = "Infinity"
    \/ p.kind = "number" /\ 2 * p.value > 35

RECURSIVE SumSizes(_)
SumSizes(edges) ==
    IF edges = <<>> THEN 0 ELSE Head(edges).size + SumSizes(Tail(edges))

LanguageEntry(edge, denominator) ==
    [percentage |-> PercentageOfTotal(edge.size, denominator),
     name       |-> edge.node.name,
     slug       |-> slugify(edge.node.name),
     color      |-> edge.node.color]

\* a plausible slip: the share taken among the edges returned, not of totalSize
RECURSIVE MapOverEdgesSize(_, _)
MapOverEdgesSize(edges, edgesSize) ==
    IF edges = <<>> THEN <<>>
    ELSE <<LanguageEntry(Head(edges), edgesSize)>> \o MapOverEdgesSize(Tail(edges), edgesSize)

MapLanguagesRenormalized(edges, totalSize) == MapOverEdgesSize(edges, SumSizes(edges))

\* .map(({ size, node }) => ({ percentage, name, slug, color }))
RECURSIVE MapLanguages(_, _)
MapLanguages(edges, totalSize) ==
    IF edges = <<>> THEN <<>>
    ELSE <<LanguageEntry(Head(edges), totalSize)>> \o MapLanguages(Tail(edges), totalSize)

\* .filter(({ percentage }) => percentage > 17.5)
RECURSIVE FilterLanguages(_)
FilterLanguages(ls) ==
    IF ls = <<>> THEN <<>>
    ELSE (IF AboveThreshold(Head(ls).percentage) THEN <<Head(ls)>> ELSE <<>>)
         \o FilterLanguages(Tail(ls))

\* repositoryTopics.nodes.map(({ topic }) => ({ slug: slugify(topic.name) }))
RECURSIVE MapTopics(_)
MapTopics(nodes) ==
    IF nodes = <<>> THEN <<>>
    ELSE <<[slug |-> slugify(Head(nodes))]>> \o MapTopics(Tail(nodes))

\* a plausible slip: the sentinel passed through
LicenseOfNoSentinel(licenseInfo) ==
    IF licenseInfo = Null THEN Null ELSE Some(licenseInfo[1].spdxId)

\* !licenseInfo || licenseInfo.spdxId === "NOASSERTION" ? null : licenseInfo.spdxId
LicenseOf(licenseInfo) ==
    IF licenseInfo = Null \/ licenseInfo[1].spdxId = NOASSERTION
    THEN Null
    ELSE Some(licenseInfo[1].spdxId)

\* new Date(committedDate): a timestamp, or an Invalid Date for a string that
\* is no date
NewDate(committedDate) ==
    IF committedDate = Null THEN InvalidDate ELSE DateAt(committedDate[1])

\* How a call ends: no result (null), an update, or a rejected promise.
NoResult == [kind |-> "null", value |-> Null]
Rejected == [kind |-> "rejected", value |-> Null]
Update(u) == [kind |-> "update", value |-> Some(u)]
Running == [kind |-> "none", value |-> Null]

\* fetchRepository from the test of queryResult on: queryResult is null (the
\* client threw) or the response, whose repository may be null.  Reading a
\* property of null or of edges[0] when there is no edge throws a TypeError
\* outside the try block, which rejects the promise the function returned.
AfterQuery(t, queryResult, clock) ==
    IF queryResult = Null \/ queryResult[1].repository = Null
    THEN NoResult
    ELSE LET r == queryResult[1].repository[1]
         IN  IF r.defaultBranchRef = Null \/ r.defaultBranchRef[1] = <<>>
             THEN Rejected
             ELSE LET metrics ==
                          [stars          |-> r.stargazerCount,
                           forks          |-> r.forkCount,
                           contributors   |-> r.mentionableUsers,
                           watchers       |-> r.watchers,
                           lastCommitDate |-> NewDate(r.defaultBranchRef[1][1]),
                           bump           |-> t.bump]
                  IN  Update([stars            |-> metrics.stars,
                              forks            |-> metrics.forks,
                              lastCommitDate   |-> metrics.lastCommitDate,
                              score            |-> calculateHealthScore(metrics, clock),
                              license          |-> LicenseOf(r.licenseInfo),
                              topics           |-> MapTopics(r.repositoryTopics),
                              languages        |->
                                  FilterLanguages(
                                      MapLanguages(r.languages.edges, r.languages.totalSize)),
                              reachedMilestone |->
                                  hasReachedMilestone(metrics.stars, t.stars)])

\* The tools fetchRepository is called with.
ToolRepositories ==
    {Null,
     Some(<<"https:", SEP, SEP, "example.com", SEP, "acme", SEP, "widget">>),
     Some(<<"https:", SEP, SEP, HOST, SEP, "acme">>),
     Some(<<"https:", SEP, SEP, HOST, SEP, "acme", SEP, "widget">>),
     Some(<<"https:", SEP, SEP, HOST, SEP, "acme", SEP, "widget", SEP, "tree", SEP, "main">>)}

ToolStars == {80, 100, 120, 600}

ToolSet == [repository : ToolRepositories, stars : ToolStars, bump : {Null, Some(3)}]

\* The responses of the remote query.
StargazerCounts == {80, 99, 100, 150, 600, 1000}

LicenseInfos == {Null, Some([spdxId |-> NOASSERTION]), Some([spdxId |-> "MIT"])}

\* defaultBranchRef: null (no default branch), or the edges of
\* target.history, each the committedDate of its node
DefaultBranchRefs ==
    {Null, Some(<<>>), Some(<<Null>>), Some(<<Some(ClockStart - 10 * TicksPerDay)>>)}

TopicNodes == {<<>>, <<"Self Hosted", "CLI">>}

LanguageNodes ==
    <<[name |-> "TypeScript", color |-> "#3178c6"],
      [name |-> "CSS", color |-> "#563d7c"],
      [name |-> "Shell", color |-> "#89e051"]>>

\* sizes with shares of 12.5%, 17.5%, 20% and 57.5% of a total of 40
LanguageSizes == {5, 7, 8, 23}

EdgesOf(sizes) == [i \in 1..Len(sizes) |-> [size |-> sizes[i], node |-> LanguageNodes[i]]]

IsDescending(sizes) == \A i \in 1..(Len(sizes) - 1) : sizes[i] >= sizes[i + 1]

\* orderBy: { field: SIZE, direction: DESC }; totalSize is the size of all
\* the languages of the repository, the edges are the largest of them
LanguagesSet ==
    { [totalSize |-> 40, edges |-> EdgesOf(sizes)] :
        sizes \in { q \in UNION { [1..n -> LanguageSizes] : n \in 0..MaxLangs } :
                      IsDescending(q) /\ SumSizes(EdgesOf(q)) <= 40 } }
    \cup {[totalSize |-> 1000, edges |-> EdgesOf(<<600, 250, 150>>)],
          [totalSize |-> 0, edges |-> <<>>]}

Repositories ==
    [stargazerCount   : StargazerCounts,
     forkCount        : {3},
     watchers         : {2},
     mentionableUsers : {1},
     licenseInfo      : LicenseInfos,
     defaultBranchRef : DefaultBranchRefs,
     repositoryTopics : TopicNodes,
     languages        : LanguagesSet]

QueryResults == {[repository |-> Null]} \cup { [repository |-> Some(r)] : r \in Repositories }

NoResponse == [kind |-> "none", data |-> Null]
ClientError == [kind |-> "error", data |-> Null]
Resolved(q) == [kind |-> "ok", data |-> Some(q)]

Init ==
    /\ tool \in ToolSet
    /\ now = ClockStart
    /\ pc = "idle"
    /\ response = NoResponse
    /\ queries = 0
    /\ logs = 0
    /\ result = Running
    /\ url = Null
    /\ parsed = NotParsed
    /\ props = NoProps
    /\ scores = <<>>

\* a plausible slip: the guard on the parsed identifier left out
fetchRepositoryStartNoGuard ==
    /\ pc = "idle"
    /\ queries' = queries + 1
    /\ pc' = "awaiting"
    /\ UNCHANGED <<url, parsed, now, props, scores, tool, response, logs, result>>

\* fetchRepository up to the await: no identifier ends the call with null,
\* otherwise the query is issued
fetchRepositoryStart ==
    /\ pc = "idle"
    /\ IF getRepoOwnerAndName(tool.repository) = Null
       THEN /\ result' = NoResult
            /\ pc' = "done"
            /\ UNCHANGED queries
       ELSE /\ queries' = queries + 1
            /\ pc' = "awaiting"
            /\ UNCHANGED result
    /\ UNCHANGED <<url, parsed, now, props, scores, tool, response, logs>>

\* a plausible slip: the catch block logs and throws the error again
QueryRejectedRethrow ==
    /\ pc = "awaiting"
    /\ response' = ClientError
    /\ logs' = logs + 1
    /\ result' = Rejected
    /\ pc' = "done"
    /\ UNCHANGED <<url, parsed, now, props, scores, tool, queries>>

\* the client throws: the catch block logs, queryResult stays null
QueryRejected ==
    /\ pc = "awaiting"
    /\ response' = ClientError
    /\ logs' = logs + 1
    /\ result' = AfterQuery(tool, Null, now)
    /\ pc' = "done"
    /\ UNCHANGED <<url, parsed, now, props, scores, tool, queries>>

\* the client returns q
QueryResolved ==
    /\ pc = "awaiting"
    /\ \E q \in QueryResults :
          /\ response' = Resolved(q)
          /\ result' = AfterQuery(tool, Some(q), now)
    /\ pc' = "done"
    /\ UNCHANGED <<url, parsed, now, props, scores, tool, queries, logs>>

\* time passes while the query is in flight; the clock is read once, by the
\* score computed after the await
TickDuringQuery == pc = "awaiting" /\ Tick

Next == fetchRepositoryStart \/ TickDuringQuery \/ QueryRejected \/ QueryResolved

Spec == Init /\ [][Next]_vars

NextParser == ParseUrl

SpecParser == InitParser /\ [][NextParser]_vars

NextScore == Tick \/ CallCalculateHealthScore

SpecScore == InitScore /\ [][NextScore]_vars

-----------------------------------------------------------------------------
(* Properties of getRepoOwnerAndName (SpecParser)                          *)

\* positions a..b of s are a non-empty path segment
IsSegment(s, a, b) == a <= b /\ b <= Len(s) /\ \A x \in a..b : s[x] # SEP

\* the host marker at i, followed by the segments i+2..j and j+2..k
PairAt(s, i, j, k) ==
    /\ i + 1 <= Len(s) /\ s[i] = HOST /\ s[i + 1] = SEP
    /\ IsSegment(s, i + 2, j)
    /\ j + 1 <= Len(s) /\ s[j + 1] = SEP
    /\ IsSegment(s, j + 2, k)
    /\ (k = Len(s) \/ s[k + 1] = SEP)

HasPairAt(s, i) == \E j, k \in 1..Len(s) : PairAt(s, i, j, k)

HasIdentifier(u) == u # Null /\ \E i \in 1..Len(u[1]) : HasPairAt(u[1], i)

\* C9: getRepoOwnerAndName returns null for null and for a string without
\* the host marker followed by two non-empty segments; otherwise it returns
\* the two segments after the first such host marker, each non-empty and free
\* of separators, whatever follows them.
C9_OwnerAndName ==
    parsed.done =>
        IF ~HasIdentifier(url)
        THEN parsed.value = Null
        ELSE \E i, j, k \in 1..Len(url[1]) :
                /\ PairAt(url[1], i, j, k)
                /\ \A h \in 1..(i - 1) : ~HasPairAt(url[1], h)
                /\ parsed.value = Some([owner |-> SubSeq(url[1], i + 2, j),
                                        name  |-> SubSeq(url[1], j + 2, k)])
                /\ Len(parsed.value[1].owner) >= 1
                /\ Len(parsed.value[1].name) >= 1
                /\ \A x \in DOMAIN parsed.value[1].owner : parsed.value[1].owner[x] # SEP
                /\ \A x \in DOMAIN parsed.value[1].name : parsed.value[1].name[x] # SEP

\* github.com/a/a/a parsed: the trailing segment is left out
C9_Witness ==
    /\ parsed.done
    /\ url = Some(<<HOST, SEP, "a", SEP, "a", SEP, "a">>)
    /\ parsed.value = Some([owner |-> <<"a">>, name |-> <<"a">>])

-----------------------------------------------------------------------------
(* Properties of calculateHealthScore (SpecScore)                          *)

IsStale(clock, d) == timeSinceLastCommit(clock, d) >= MAX_PENALTY_DAYS * TicksPerDay

\* C6 as stated: any two calls with the same props give the same score,
\* whenever they are made.
C6_SameInputsSameScore ==
    \A i, j \in DOMAIN scores : scores[i].score = scores[j].score

\* C6 amended: two calls with the same props give the same score when they
\* read the same clock, or when at both the last commit (the epoch, for a
\* null or invalid date) is at least 90 days old.
C6_SameScoreSameClockOrStale ==
    \A i, j \in DOMAIN scores :
        (\/ scores[i].at = scores[j].at
         \/ /\ IsStale(scores[i].at, props.lastCommitDate)
            /\ IsStale(scores[j].at, props.lastCommitDate))
        => scores[i].score = scores[j].score

\* two calls at different times on a commit that is 90 days old at the first
C6_Witness ==
    /\ Len(scores) = 2
    /\ scores[1].at < scores[2].at
    /\ props.lastCommitDate = DateAt(ClockStart - MAX_PENALTY_DAYS * TicksPerDay)
    /\ scores[1].score = scores[2].score

\* C7: the score does not decrease with one more star; it does not increase
\* as the time since the last commit grows (a later call, or an earlier
\* commit); and from 90 days on it is constant: the scores at 90 days, at 900
\* days and for a null date are equal, and equal that of any stale commit.
C7_Monotone ==
    \A i \in DOMAIN scores :
        LET c      == scores[i]
            at90   == calculateHealthScore(
                          [props EXCEPT !.lastCommitDate =
                               DateAt(c.at - MAX_PENALTY_DAYS * TicksPerDay)], c.at)
            at900  == calculateHealthScore(
                          [props EXCEPT !.lastCommitDate =
                               DateAt(c.at - 900 * TicksPerDay)], c.at)
            atNull == calculateHealthScore([props EXCEPT !.lastCommitDate = NoDate], c.at)
        IN  /\ calculateHealthScore([props EXCEPT !.stars = @ + 1], c.at) >= c.score
            /\ \A j \in DOMAIN scores : i < j => scores[j].score <= c.score
            /\ props.lastCommitDate.kind = "date" =>
                   calculateHealthScore(
                       [props EXCEPT !.lastCommitDate = DateAt(@.time - 1)], c.at) <= c.score
            /\ at90 = at900
            /\ at900 = atNull
            /\ IsStale(c.at, props.lastCommitDate) => c.score = at90

\* a later call on a fresh commit scored strictly lower
C7_Witness ==
    /\ Len(scores) = 2
    /\ scores[1].at < scores[2].at
    /\ ~IsStale(scores[2].at, props.lastCommitDate)
    /\ scores[2].score < scores[1].score

\* C10 as stated: the penalty subtracted lies between 0 and 45 (90 days'
\* worth) whatever the last commit date, so the date never raises the score.
C10_PenaltyBetween0And45 ==
    \A i \in DOMAIN scores :
        /\ 0 <= scores[i].penalty
        /\ scores[i].penalty <= MAX_PENALTY_DAYS * TicksPerDay

-----------------------------------------------------------------------------
(* Properties of fetchRepository (Spec)                                    *)

\* C1: when the client throws, one query was issued, one line was logged,
\* the call returned null and nothing was thrown; no call issues a second
\* query.
C1_FailSoftNoRetry ==
    /\ queries <= 1
    /\ (pc = "done" /\ response = ClientError) =>
           /\ queries = 1
           /\ logs = 1
           /\ result = NoResult

C1_Witness == pc = "done" /\ response = ClientError /\ logs = 1

\* C2 as stated: whatever the outcome of the remote call, the call ends with
\* null or with an update, never with an exception.
C2_NeverThrows == pc = "done" => result.kind \in {"null", "update"}

\* C3: with no identifier in tool.repository the call returns null, no query
\* is issued and nothing is logged.
C3_NoIdentifierNoQuery ==
    (pc = "done" /\ ~HasIdentifier(tool.repository)) =>
        /\ result = NoResult
        /\ queries = 0
        /\ logs = 0
        /\ response = NoResponse

C3_Witness ==
    /\ pc = "done"
    /\ tool.repository = Some(<<"https:", SEP, SEP, "example.com", SEP, "acme", SEP, "widget">>)
    /\ result = NoResult

FetchedRepository == response.data[1].repository[1]

\* C4: reachedMilestone is true exactly when some milestone m has
\* tool.stars < m <= stargazerCount.
C4_MilestoneCrossing ==
    (pc = "done" /\ result.kind = "update") =>
        result.value[1].reachedMilestone =
            (\E i \in DOMAIN STAR_MILESTONES :
                /\ tool.stars < STAR_MILESTONES[i]
                /\ STAR_MILESTONES[i] <= FetchedRepository.stargazerCount)

\* above a milestone without crossing it: 120 stars before, 150 now
C4_Witness ==
    /\ pc = "done" /\ result.kind = "update"
    /\ tool.stars = 120
    /\ FetchedRepository.stargazerCount = 150
    /\ result.value[1].reachedMilestone = FALSE

\* the share of an edge is above 17.5% of totalSize, or at least 17.5% of it
ShareAbove(edge, totalSize) == 1000 * edge.size > 175 * totalSize
ShareFrom(edge, totalSize) == totalSize > 0 /\ 1000 * edge.size >= 175 * totalSize

\* out is the entries of edges at the positions kept, in their order, each
\* with its percentage of totalSize rounded to a nearest integer
IsProjection(out, edges, totalSize, kept) ==
    /\ Len(out) = Cardinality(kept)
    /\ \A j \in DOMAIN out :
          LET i == CHOOSE x \in kept : Cardinality({y \in kept : y < x}) = j - 1
          IN  /\ out[j].name = edges[i].node.name
              /\ out[j].color = edges[i].node.color
              /\ out[j].percentage.kind = "number"
              /\ 2 * (100 * edges[i].size - out[j].percentage.value * totalSize) <= totalSize
              /\ 2 * (out[j].percentage.value * totalSize - 100 * edges[i].size) <= totalSize

\* C5 as stated: the languages returned are the edges whose share of
\* totalSize is strictly above 17.5%, in order, with percentages of totalSize.
C5_KeptIffShareAbove ==
    (pc = "done" /\ result.kind = "update") =>
        LET l == FetchedRepository.languages
        IN  IsProjection(result.value[1].languages, l.edges, l.totalSize,
                         {i \in DOMAIN l.edges : ShareAbove(l.edges[i], l.totalSize)})

\* C5 amended: the languages returned are the edges whose share of totalSize
\* is at least 17.5% (a rounded percentage of 18 or more), in order, with
\* percentages of totalSize.
C5_KeptIffShareFrom ==
    (pc = "done" /\ result.kind = "update") =>
        LET l == FetchedRepository.languages
        IN  IsProjection(result.value[1].languages, l.edges, l.totalSize,
                         {i \in DOMAIN l.edges : ShareFrom(l.edges[i], l.totalSize)})

\* sizes 23, 7, 5 of 40: the 17.5% entry is kept as 18, the 12.5% one dropped
C5_Witness ==
    /\ pc = "done" /\ result.kind = "update"
    /\ FetchedRepository.languages.totalSize = 40
    /\ Len(FetchedRepository.languages.edges) = 3
    /\ FetchedRepository.languages.edges[2].size = 7
    /\ FetchedRepository.languages.edges[3].size = 5
    /\ Len(result.value[1].languages) = 2
    /\ result.value[1].languages[2].percentage = Number(18)
    /\ result.value[1].languages[2].name = "CSS"

\* C8: the license returned is null for a null licenseInfo and for the
\* sentinel, the spdxId otherwise, and never the sentinel.
C8_LicenseSentinel ==
    (pc = "done" /\ result.kind = "update") =>
        LET li == FetchedRepository.licenseInfo
            license == result.value[1].license
        IN  /\ license # Some(NOASSERTION)
            /\ IF li = Null THEN license = Null
               ELSE IF li[1].spdxId = NOASSERTION THEN license = Null
               ELSE license = Some(li[1].spdxId)

C8_Witness ==
    /\ pc = "done" /\ result.kind = "update"
    /\ FetchedRepository.licenseInfo = Some([spdxId |-> NOASSERTION])
    /\ result.value[1].license = Null

====
